---- MODULE Spec2Model ----
(***************************************************************************)
(* CryptoGap+ arbitrage core: the two exchange adapters' price tables, the *)
(* opportunity scorer and ranker with its last-seen record, the low-price  *)
(* screener and the trade simulator (src/utils/arbitrage_calculator.py,    *)
(* src/data/binance_fetcher.py, src/data/kraken_fetcher.py).               *)
(***************************************************************************)
EXTENDS Integers, Sequences, FiniteSets, TLC

VARIABLES
    cryptos,            \* config.TOP_CRYPTOS, the tracked symbols in order (the cryptos
                        \* argument of Binance's get_top_crypto_prices)
    markets,            \* config.MARKETS, the quote markets in order
    binance_feed,       \* what Binance's get_all_tickers answers now
    kraken_feed,        \* what Kraken's fetch_tickers answers now
    last_opportunity,   \* ArbitrageCalculator.last_opportunity
    fees,               \* config.BINANCE_TAKER_FEE, KRAKEN_TAKER_FEE and SLIPPAGE
    clock,              \* the last reading of time.time()
    op,                 \* the operation that returned last ("idle": none since the feeds moved)
    req,                \* the arguments of that call
    ret,                \* the value it returned
    runs,               \* per fee configuration, what this same call returned under it
    kraken_cryptos,     \* the cryptos argument of Kraken's get_top_crypto_prices
    threads,            \* per thread sharing the calculator: where it stands in its
                        \* call, and its local value
    tops,               \* the first rows of the frames the cycles of the threads computed
    mirror,             \* what the cycle returned before the two exchanges' feeds were exchanged
    display             \* what tab1 of the dashboard shows since its last render

vars == <<cryptos, markets, binance_feed, kraken_feed, last_opportunity, fees, clock, op, req,
          ret, runs, kraken_cryptos, threads, tops, mirror, display>>

(***************************************************************************)
(* Bounds of the model.                                                    *)
(***************************************************************************)
\* Width of the significand of the model's binary floating point.  Python's
\* float has 53 bits; the model rounds every operation the same way
\* (to nearest, ties to even) on a narrower significand.
MantissaBits == 14
\* Computation cycles (readings of time.time()) in one behaviour.
MaxClock == 2

(***************************************************************************)
(* Python float arithmetic.  A number is m * 2^e with m odd (or 0); NaN is *)
(* pandas' missing value, None is Python's None, Inf(s) is the infinity of *)
(* sign s that numpy's division by zero gives.                             *)
(***************************************************************************)
Num(m, e) == [k |-> "num", m |-> m, e |-> e]
NaN == [k |-> "nan", m |-> 0, e |-> 0]
None == [k |-> "none", m |-> 0, e |-> 0]
Inf(s) == [k |-> "inf", m |-> s, e |-> 0]

\* x is a finite number.
IsNum(x) == x.k = "num"
IsInf(x) == x.k = "inf"
\* pd.isna
isna(x) == x.k \in {"nan", "none"}

RECURSIVE Pow2(_)
Pow2(n) == IF n = 0 THEN 1 ELSE 2 * Pow2(n - 1)

Abs(i) == IF i < 0 THEN -i ELSE i
Sign(i) == IF i < 0 THEN -1 ELSE 1
MinInt(i, j) == IF i < j THEN i ELSE j

RECURSIVE Norm(_, _)
Norm(m, e) ==
    IF m = 0 THEN Num(0, 0)
    ELSE IF m % 2 = 0 THEN Norm(m \div 2, e + 1)
    ELSE Num(m, e)

\* The float nearest to s * (num / den) * 2^e, ties to even (num, den > 0).
RECURSIVE RoundQ(_, _, _, _)
RoundQ(s, num, den, e) ==
    IF num >= den * Pow2(MantissaBits) THEN RoundQ(s, num, den * 2, e + 1)
    ELSE IF num % den # 0 /\ num < den * Pow2(MantissaBits - 1)
         THEN RoundQ(s, num * 2, den, e - 1)
    ELSE LET q == num \div den
             r == num % den
             up == 2 * r > den \/ (2 * r = den /\ q % 2 = 1)
         IN  Norm(s * (IF up THEN q + 1 ELSE q), e)

\* float("n/d"): a decimal literal or a parsed ticker price, rounded to a float.
Flt(n, d) == IF n = 0 THEN Num(0, 0) ELSE RoundQ(Sign(n), Abs(n), d, 0)

\* x and y as integers over their common exponent.
AlignL(x, y) == x.m * Pow2(x.e - MinInt(x.e, y.e))
AlignR(x, y) == y.m * Pow2(y.e - MinInt(x.e, y.e))

FSub(x, y) ==
    IF IsNum(x) /\ IsNum(y)
    THEN LET d == AlignL(x, y) - AlignR(x, y)
         IN  IF d = 0 THEN Num(0, 0) ELSE RoundQ(Sign(d), Abs(d), 1, MinInt(x.e, y.e))
    ELSE IF IsInf(x) /\ IsInf(y) THEN (IF x.m = y.m THEN NaN ELSE x)
    ELSE IF IsInf(x) /\ IsNum(y) THEN x
    ELSE IF IsNum(x) /\ IsInf(y) THEN Inf(-y.m)
    ELSE NaN

FAdd(x, y) ==
    IF IsNum(x) /\ IsNum(y)
    THEN LET d == AlignL(x, y) + AlignR(x, y)
         IN  IF d = 0 THEN Num(0, 0) ELSE RoundQ(Sign(d), Abs(d), 1, MinInt(x.e, y.e))
    ELSE IF IsInf(x) /\ IsInf(y) THEN (IF x.m = y.m THEN x ELSE NaN)
    ELSE IF IsInf(x) /\ IsNum(y) THEN x
    ELSE IF IsNum(x) /\ IsInf(y) THEN y
    ELSE NaN

FMul(x, y) ==
    IF IsNum(x) /\ IsNum(y)
    THEN IF x.m = 0 \/ y.m = 0 THEN Num(0, 0)
         ELSE RoundQ(Sign(x.m) * Sign(y.m), Abs(x.m) * Abs(y.m), 1, x.e + y.e)
    ELSE IF (IsInf(x) \/ IsNum(x)) /\ (IsInf(y) \/ IsNum(y))
         THEN IF x.m = 0 \/ y.m = 0 THEN NaN ELSE Inf(Sign(x.m) * Sign(y.m))
    ELSE NaN

\* x / y as numpy divides: a nonzero number over 0 is an infinity, 0 / 0 is
\* NaN.  (Python's own float division raises ZeroDivisionError instead: the
\* callers that divide Python floats test the divisor first.)
FDiv(x, y) ==
    IF IsNum(x) /\ IsNum(y)
    THEN IF y.m = 0 THEN (IF x.m = 0 THEN NaN ELSE Inf(Sign(x.m)))
         ELSE IF x.m = 0 THEN Num(0, 0)
         ELSE RoundQ(Sign(x.m) * Sign(y.m), Abs(x.m), Abs(y.m), x.e - y.e)
    ELSE IF IsInf(x) /\ IsNum(y) THEN Inf(x.m * Sign(y.m))
    ELSE IF IsNum(x) /\ IsInf(y) THEN Num(0, 0)
    ELSE NaN

\* x < y; False when either side is NaN.
FLt(x, y) ==
    IF IsNum(x) /\ IsNum(y) THEN AlignL(x, y) < AlignR(x, y)
    ELSE IF IsInf(x) /\ IsNum(y) THEN x.m < 0
    ELSE IF IsNum(x) /\ IsInf(y) THEN y.m > 0
    ELSE IF IsInf(x) /\ IsInf(y) THEN x.m < y.m
    ELSE FALSE
FLe(x, y) == FLt(x, y) \/ ((IsNum(x) \/ IsInf(x)) /\ x = y)
FGt(x, y) == FLt(y, x)

FAbs(x) == IF IsNum(x) THEN Num(Abs(x.m), x.e) ELSE IF IsInf(x) THEN Inf(1) ELSE x
\* Python's min(x, y): y unless x < y.
FMin(x, y) == IF FLt(x, y) THEN x ELSE y

Zero == Num(0, 0)
One == Flt(1, 1)
Hundred == Flt(100, 1)

(***************************************************************************)
(* Configuration (src/config/config.py).                                   *)
(***************************************************************************)
\* The first symbols of TOP_CRYPTOS; BTC is also a quote market.
TOP_CRYPTOS == <<"BTC", "ETH">>
MARKETS == <<"USDT", "BTC">>
Exchanges == {"Binance", "Kraken"}

\* The fee settings of config.py (0.1%, 0.26%, 0.2%), and a configuration
\* without fees.
ConfiguredFees ==
    [BINANCE_TAKER_FEE |-> Flt(1, 1000), KRAKEN_TAKER_FEE |-> Flt(26, 10000),
     SLIPPAGE |-> Flt(2, 1000)]
FeeConfigs ==
    {ConfiguredFees, [BINANCE_TAKER_FEE |-> Zero, KRAKEN_TAKER_FEE |-> Zero, SLIPPAGE |-> Zero]}

\* The values of MARKETS: the configured sequence, and the same markets reordered.
MarketLists == {MARKETS, <<"BTC", "USDT">>}

\* The values of the adapters' parameter cryptos: the configured list, and a
\* list that tracks the quote currency USDT itself.
SymbolLists == {TOP_CRYPTOS, <<"USDT", "ETH">>}

\* The symbol lists the two adapters are called with when the tables handed
\* to the calculator do not cover the same symbols: tables of one exchange
\* without BTC or without ETH, and a table with two rows of one symbol.
BinanceSymbolLists == {TOP_CRYPTOS, <<"ETH">>, <<"USDT", "ETH">>}
KrakenSymbolLists == {TOP_CRYPTOS, <<"ETH">>, <<"BTC">>, <<"ETH", "ETH">>}

SeqToSet(s) == {s[i] : i \in 1..Len(s)}

(***************************************************************************)
(* Exchange feeds.  A feed is the answer of the exchange's ticker API: a   *)
(* status and the tickers (base, quote, price) it lists.                   *)
(***************************************************************************)
Ticker(b, q, n, d) == [base |-> b, quote |-> q, price |-> Flt(n, d)]
Feed(st, ts) == [status |-> st, tickers |-> ts]

\* "symbol in all_prices" and all_prices[symbol] for the pair base/quote.
Listed(all_prices, b, q) == \E t \in all_prices : t.base = b /\ t.quote = q
PriceOf(all_prices, b, q) == (CHOOSE t \in all_prices : t.base = b /\ t.quote = q).price

(***************************************************************************)
(* pandas data frames.  A price table is its set of <market>_price columns *)
(* and its rows in order; the empty frame has neither.                     *)
(***************************************************************************)
EmptyFrame == [cols |-> {}, rows |-> <<>>]
IsEmpty(df) == df.rows = <<>>

\* A cell of a row dict before the frame is built: a price, None, or no key.
Missing == [k |-> "missing", m |-> 0, e |-> 0]

\* DataFrame with the cell no row dict has a key for filled with the price 0.5.
DataFrameFillHalf(data, mkts) ==
    LET object(m) == \A i \in 1..Len(data) : data[i].cell[m] = None
        conv(m, c) == IF IsNum(c) THEN c
                      ELSE IF c = Missing THEN Flt(1, 2)
                      ELSE IF object(m) THEN None ELSE NaN
    IN  IF Len(data) = 0 THEN EmptyFrame
        ELSE [cols |-> SeqToSet(mkts),
              rows |-> [i \in 1..Len(data) |->
                          [Symbol |-> data[i].Symbol,
                           price |-> [m \in SeqToSet(mkts) |-> conv(m, data[i].cell[m])]]]]

\* pd.DataFrame(data) for the row dicts data[i] = [Symbol, cell: market -> cell].
\* A column holds every key some row has; a cell without key becomes NaN; a
\* column of None alone keeps dtype object and its None, any other column is
\* float64 and its None become NaN.
DataFrame(data, mkts) ==
    LET cols == {m \in SeqToSet(mkts) : \E i \in 1..Len(data) : data[i].cell[m] # Missing}
        object(m) == \A i \in 1..Len(data) : data[i].cell[m] = None
        conv(m, c) == IF IsNum(c) THEN c ELSE IF object(m) THEN None ELSE NaN
    IN  IF Len(data) = 0 THEN EmptyFrame
        ELSE [cols |-> cols,
              rows |-> [i \in 1..Len(data) |->
                          [Symbol |-> data[i].Symbol,
                           price |-> [m \in cols |-> conv(m, data[i].cell[m])]]]]

(***************************************************************************)
(* The exchange adapters (get_ticker_prices, get_top_crypto_prices).       *)
(***************************************************************************)
\* BinanceFetcher.get_ticker_prices: {} on a BinanceAPIException; any other
\* failure propagates to the caller.
BinanceTickerPrices(feed) == IF feed.status = "ok" THEN feed.tickers ELSE {}
\* KrakenFetcher.get_ticker_prices: {} on any exception.
KrakenTickerPrices(feed) == IF feed.status = "ok" THEN feed.tickers ELSE {}

\* Kraken's alternative name of a symbol.
Alt(sym) == IF sym = "BTC" THEN "XBT" ELSE sym

\* The cell Binance's adapter writes for crypto/market: the direct pair, else
\* the reciprocal of the reverse pair, else None.  "raise": 1 / 0.
BinanceCell(all_prices, crypto, market) ==
    IF crypto = market THEN Missing
    ELSE IF Listed(all_prices, crypto, market) THEN PriceOf(all_prices, crypto, market)
    ELSE IF Listed(all_prices, market, crypto)
         THEN IF PriceOf(all_prices, market, crypto) = Zero
              THEN [k |-> "raise", m |-> 0, e |-> 0]
              ELSE FDiv(One, PriceOf(all_prices, market, crypto))
    ELSE None

\* Kraken's adapter: as Binance's, then the XBT-named direct and reverse pairs.
KrakenCell(all_prices, crypto, market) ==
    IF crypto = market THEN Missing
    ELSE IF Listed(all_prices, crypto, market) THEN PriceOf(all_prices, crypto, market)
    ELSE IF Listed(all_prices, market, crypto)
         THEN IF PriceOf(all_prices, market, crypto) = Zero
              THEN [k |-> "raise", m |-> 0, e |-> 0]
              ELSE FDiv(One, PriceOf(all_prices, market, crypto))
    ELSE IF Listed(all_prices, Alt(crypto), Alt(market))
         THEN PriceOf(all_prices, Alt(crypto), Alt(market))
    ELSE IF Listed(all_prices, Alt(market), Alt(crypto))
         THEN IF PriceOf(all_prices, Alt(market), Alt(crypto)) = Zero
              THEN [k |-> "raise", m |-> 0, e |-> 0]
              ELSE FDiv(One, PriceOf(all_prices, Alt(market), Alt(crypto)))
    ELSE None

Raises(data, mkts) ==
    \E i \in 1..Len(data) : \E m \in SeqToSet(mkts) : data[i].cell[m].k = "raise"

\* BinanceFetcher.get_top_crypto_prices: one row per crypto; the empty frame
\* when anything raised.
BinanceTopCryptoPrices(feed, crs, mkts) ==
    LET all_prices == BinanceTickerPrices(feed)
        data == [i \in 1..Len(crs) |->
                   [Symbol |-> crs[i],
                    cell |-> [m \in SeqToSet(mkts) |-> BinanceCell(all_prices, crs[i], m)]]]
    IN  IF feed.status = "failure" \/ Raises(data, mkts) THEN EmptyFrame
        ELSE DataFrame(data, mkts)

\* KrakenFetcher.get_top_crypto_prices.
KrakenTopCryptoPrices(feed, crs, mkts) ==
    LET all_prices == KrakenTickerPrices(feed)
        data == [i \in 1..Len(crs) |->
                   [Symbol |-> crs[i],
                    cell |-> [m \in SeqToSet(mkts) |-> KrakenCell(all_prices, crs[i], m)]]]
    IN  IF Raises(data, mkts) THEN EmptyFrame
        ELSE DataFrame(data, mkts)

\* ArbitrageCalculator.fetch_all_prices, on the feeds as they are now.
binance_prices == BinanceTopCryptoPrices(binance_feed, cryptos, markets)
kraken_prices == KrakenTopCryptoPrices(kraken_feed, kraken_cryptos, markets)

(***************************************************************************)
(* pd.merge(binance_prices, kraken_prices, on='Symbol', suffixes=...): the *)
(* inner join on Symbol, in the left table's row order.  A price column    *)
(* both tables have is renamed <market>_price_binance / _kraken; a column  *)
(* of one table alone keeps its name.                                      *)
(***************************************************************************)
RECURSIVE MergeRows(_, _, _)
MergeRows(lrows, rrows, i) ==
    IF i > Len(lrows) THEN <<>>
    ELSE LET hit == SelectSeq(rrows, LAMBDA r : r.Symbol = lrows[i].Symbol)
         IN  [j \in 1..Len(hit) |->
                [Symbol |-> lrows[i].Symbol,
                 binance |-> lrows[i].price,
                 kraken |-> hit[j].price]]
             \o MergeRows(lrows, rrows, i + 1)

\* Merge pairing the rows of the two tables by position, not by Symbol.
MergeByPosition(left, right) ==
    [cols |-> left.cols \cap right.cols,
     rows |-> [i \in 1..MinInt(Len(left.rows), Len(right.rows)) |->
                 [Symbol |-> left.rows[i].Symbol,
                  binance |-> left.rows[i].price,
                  kraken |-> right.rows[i].price]]]

Merge(left, right) ==
    [cols |-> left.cols \cap right.cols, rows |-> MergeRows(left.rows, right.rows, 1)]

\* row.get("<market>_price_binance") and row.get("<market>_price_kraken").
RowGetBinance(df, row, market) == IF market \in df.cols THEN row.binance[market] ELSE None
RowGetKraken(df, row, market) == IF market \in df.cols THEN row.kraken[market] ELSE None

(***************************************************************************)
(* ArbitrageCalculator.calculate_arbitrage_opportunities.                  *)
(***************************************************************************)
\* FMin taking the higher price.
FMax(x, y) == IF FLt(x, y) THEN y ELSE x

\* PriceDiffPct relative to the higher of the two prices.
PriceDiffPctOfHigher(binance_price, kraken_price) ==
    FMul(FDiv(FAbs(FSub(binance_price, kraken_price)), FMax(binance_price, kraken_price)),
         Hundred)

\* abs(binance_price - kraken_price) / min(binance_price, kraken_price) * 100
PriceDiffPct(binance_price, kraken_price) ==
    FMul(FDiv(FAbs(FSub(binance_price, kraken_price)), FMin(binance_price, kraken_price)),
         Hundred)

\* Opportunity with the price comparison reversed.
OpportunityReversed(symbol, market, binance_price, kraken_price, now) ==
    LET cheapBinance == FLt(kraken_price, binance_price)
    IN  [Symbol |-> symbol,
         Market |-> market,
         Buy_Exchange |-> IF cheapBinance THEN "Binance" ELSE "Kraken",
         Sell_Exchange |-> IF cheapBinance THEN "Kraken" ELSE "Binance",
         Buy_Price |-> IF cheapBinance THEN binance_price ELSE kraken_price,
         Sell_Price |-> IF cheapBinance THEN kraken_price ELSE binance_price,
         Price_Diff_Pct |-> PriceDiffPct(binance_price, kraken_price),
         Timestamp |-> now]

\* Opportunity buying on Binance whatever the prices.
OpportunityBinanceBuys(symbol, market, binance_price, kraken_price, now) ==
    [Symbol |-> symbol,
     Market |-> market,
     Buy_Exchange |-> "Binance",
     Sell_Exchange |-> "Kraken",
     Buy_Price |-> binance_price,
     Sell_Price |-> kraken_price,
     Price_Diff_Pct |-> PriceDiffPct(binance_price, kraken_price),
     Timestamp |-> now]

\* The record appended for one (symbol, market) with both prices present.
Opportunity(symbol, market, binance_price, kraken_price, now) ==
    LET cheapBinance == FLt(binance_price, kraken_price)
    IN  [Symbol |-> symbol,
         Market |-> market,
         Buy_Exchange |-> IF cheapBinance THEN "Binance" ELSE "Kraken",
         Sell_Exchange |-> IF cheapBinance THEN "Kraken" ELSE "Binance",
         Buy_Price |-> IF cheapBinance THEN binance_price ELSE kraken_price,
         Sell_Price |-> IF cheapBinance THEN kraken_price ELSE binance_price,
         Price_Diff_Pct |-> PriceDiffPct(binance_price, kraken_price),
         Timestamp |-> now]

\* The (symbol, market) pairs the loop scores: not a self pair, both prices present.
Scored(df, row, market) ==
    /\ row.Symbol # market
    /\ ~isna(RowGetBinance(df, row, market))
    /\ ~isna(RowGetKraken(df, row, market))

\* Included admitting a gap of 0 as well.
IncludedWithTies(price_diff_pct) == ~FLt(price_diff_pct, Zero)

\* "Include all opportunities with a price difference": price_diff_pct > 0.
Included(price_diff_pct) == FGt(price_diff_pct, Zero)

\* The records one row appends, market by market from index j.
RECURSIVE RowOpportunities(_, _, _, _, _)
RowOpportunities(df, row, mkts, j, now) ==
    IF j > Len(mkts) THEN <<>>
    ELSE LET b == RowGetBinance(df, row, mkts[j])
             k == RowGetKraken(df, row, mkts[j])
             rest == RowOpportunities(df, row, mkts, j + 1, now)
         IN  IF Scored(df, row, mkts[j]) /\ Included(PriceDiffPct(b, k))
             THEN <<Opportunity(row.Symbol, mkts[j], b, k, now)>> \o rest
             ELSE rest

\* The list "opportunities" after the loop, in the order the records were appended.
RECURSIVE Opportunities(_, _, _, _)
Opportunities(df, mkts, i, now) ==
    IF i > Len(df.rows) THEN <<>>
    ELSE RowOpportunities(df, df.rows[i], mkts, 1, now) \o Opportunities(df, mkts, i + 1, now)

\* The loop raises ZeroDivisionError when a scored pair's lower price is 0.
ScoringRaises(df, mkts) ==
    \E i \in 1..Len(df.rows) : \E m \in SeqToSet(mkts) :
        /\ Scored(df, df.rows[i], m)
        /\ FMin(RowGetBinance(df, df.rows[i], m), RowGetKraken(df, df.rows[i], m)) = Zero

\* s is in non-increasing order of Price_Diff_Pct, the NaN last (na_position='last').
Descending(s) ==
    \A i \in 1..(Len(s) - 1) :
        /\ ~FLt(s[i].Price_Diff_Pct, s[i + 1].Price_Diff_Pct)
        /\ isna(s[i].Price_Diff_Pct) => isna(s[i + 1].Price_Diff_Pct)

\* sort_values with ascending=True.
sort_values_ascending(frame) ==
    {s \in {[i \in 1..Len(frame) |-> frame[p[i]]] : p \in Permutations(1..Len(frame))} :
        \A i \in 1..(Len(s) - 1) : ~FLt(s[i + 1].Price_Diff_Pct, s[i].Price_Diff_Pct)}

\* df.sort_values(by='Price_Diff_Pct', ascending=False) with the default
\* kind='quicksort', which is not stable: every ordering of the rows that
\* is non-increasing in Price_Diff_Pct is a possible outcome.
sort_values(frame) ==
    {s \in {[i \in 1..Len(frame) |-> frame[p[i]]] : p \in Permutations(1..Len(frame))} :
        Descending(s)}

\* An exception on its way out of an operation.
Raised == <<[k |-> "raise", m |-> 0, e |-> 0]>>

\* A handler that lets the exception through.
Reraised(exception) == exception

\* "except Exception as e": the error is logged and the operation returns
\* its empty value, pd.DataFrame() or {} (both <<>>).
Caught(exception) == <<>>

\* The frames calculate_arbitrage_opportunities can return on these tables
\* (the empty frame is <<>>).
calculate_arbitrage_opportunities(bp, kp, mkts, now) ==
    IF IsEmpty(bp) \/ IsEmpty(kp) THEN {<<>>}
    ELSE LET merged_df == Merge(bp, kp)
         IN  IF ScoringRaises(merged_df, mkts) THEN {Caught(Raised)}
             ELSE sort_values(Opportunities(merged_df, mkts, 1, now))

\* A value of self.last_opportunity: None, or a dict (<<>> is {}, <<r>> the record r).
PyNone == [none |-> TRUE, dict |-> <<>>]
Dict(d) == [none |-> FALSE, dict |-> d]

\* StoredOpportunity taking the last row, iloc[-1].
StoredLastRow(last, opportunities_df) ==
    IF Len(opportunities_df) > 0 THEN Dict(<<opportunities_df[Len(opportunities_df)]>>)
    ELSE last

\* StoredOpportunity resetting the record when the frame is empty.
StoredClearsOnEmpty(last, opportunities_df) ==
    IF Len(opportunities_df) > 0 THEN Dict(<<opportunities_df[1]>>) ELSE PyNone

\* StoredOpportunity keeping the first record ever stored.
StoredKeepsFirst(last, opportunities_df) ==
    IF Len(opportunities_df) > 0 /\ last.none THEN Dict(<<opportunities_df[1]>>) ELSE last

\* StoredOpportunity updating the prices of the dict already stored, in
\* place, instead of replacing the dict.
StoredInPlace(last, opportunities_df) ==
    IF Len(opportunities_df) = 0 THEN last
    ELSE IF last.none THEN Dict(<<opportunities_df[1]>>)
    ELSE Dict(<<[last.dict[1] EXCEPT !.Buy_Price = opportunities_df[1].Buy_Price,
                                     !.Sell_Price = opportunities_df[1].Sell_Price,
                                     !.Price_Diff_Pct = opportunities_df[1].Price_Diff_Pct]>>)

\* self.last_opportunity after the call returned opportunities_df:
\* opportunities_df.iloc[0].to_dict() when there is a row.
StoredOpportunity(last, opportunities_df) ==
    IF Len(opportunities_df) > 0 THEN Dict(<<opportunities_df[1]>>) ELSE last

\* ArbitrageCalculator.get_last_opportunity: the stored dict when it is
\* truthy, {} otherwise.
get_last_opportunity ==
    IF ~last_opportunity.none /\ last_opportunity.dict # <<>> THEN last_opportunity.dict
    ELSE <<>>

(***************************************************************************)
(* ArbitrageCalculator.get_low_price_gainers.                              *)
(***************************************************************************)
\* LowPrice without the two missing-value tests.
LowPriceAnyBelow(b, k) == FLt(b, One) \/ FLt(k, One)

\* LowPrice keeping only the rows whose two prices differ.
LowPriceWithGap(b, k) == (FLt(b, One) \/ FLt(k, One)) /\ ~isna(b) /\ ~isna(k) /\ b # k

\* The row filter: a price below 1 on either exchange and both present.
LowPrice(b, k) == (FLt(b, One) \/ FLt(k, One)) /\ ~isna(b) /\ ~isna(k)

Gainer(symbol, b, k) ==
    [Symbol |-> symbol,
     Binance_Price |-> b,
     Kraken_Price |-> k,
     Price_Diff_Pct |-> FMul(FDiv(FAbs(FSub(b, k)), FMin(b, k)), Hundred),
     Avg_Price |-> FDiv(FAdd(b, k), Flt(2, 1))]

\* The filter raises KeyError when a table has no USDT_price column, and
\* TypeError when it compares a column of None with 1.
GainersRaises(merged_df) ==
    \/ "USDT" \notin merged_df.cols
    \/ \E i \in 1..Len(merged_df.rows) :
          merged_df.rows[i].binance["USDT"] = None \/ merged_df.rows[i].kraken["USDT"] = None

get_low_price_gainers(bp, kp) ==
    IF IsEmpty(bp) \/ IsEmpty(kp) THEN {<<>>}
    ELSE LET merged_df == Merge(bp, kp)
         IN  IF GainersRaises(merged_df) THEN {Caught(Raised)}
             ELSE LET low == SelectSeq(merged_df.rows,
                                LAMBDA r : LowPrice(r.binance["USDT"], r.kraken["USDT"]))
                  IN  sort_values([i \in 1..Len(low) |->
                          Gainer(low[i].Symbol, low[i].binance["USDT"], low[i].kraken["USDT"])])

(***************************************************************************)
(* ArbitrageCalculator.calculate_trade_profit.                             *)
(***************************************************************************)
\* table[table['Symbol'] == symbol][f"{market}_price"].values[0]; "raise" on
\* a KeyError (no such column) or IndexError (no such row).
Lookup(table, symbol, market) ==
    LET hit == SelectSeq(table.rows, LAMBDA r : r.Symbol = symbol)
    IN  IF market \notin table.cols \/ Len(hit) = 0 THEN [k |-> "raise", m |-> 0, e |-> 0]
        ELSE hit[1].price[market]

\* TradeRecord with the two taker fees and the slippage taken off the profit.
TradeRecordNetOfFees(symbol, market, amount, buy_exchange, sell_exchange, buy_price, sell_price) ==
    LET crypto_amount == FDiv(amount, buy_price)
        sell_amount == FMul(crypto_amount, sell_price)
        final_amount == sell_amount
        cost == FMul(amount, FAdd(FAdd(fees.BINANCE_TAKER_FEE, fees.KRAKEN_TAKER_FEE),
                                  fees.SLIPPAGE))
        profit == FSub(FSub(final_amount, amount), cost)
        profit_percentage == FMul(FDiv(profit, amount), Hundred)
    IN  [symbol |-> symbol,
         market |-> market,
         initial_investment |-> amount,
         buy_exchange |-> buy_exchange,
         buy_price |-> buy_price,
         crypto_amount |-> crypto_amount,
         sell_exchange |-> sell_exchange,
         sell_price |-> sell_price,
         sell_amount |-> sell_amount,
         final_amount |-> final_amount,
         profit |-> profit,
         profit_percentage |-> profit_percentage,
         profitable |-> FGt(profit, Zero)]

\* TradeRecord with the percentage left as a fraction.
TradeRecordFraction(symbol, market, amount, buy_exchange, sell_exchange, buy_price, sell_price) ==
    LET crypto_amount == FDiv(amount, buy_price)
        sell_amount == FMul(crypto_amount, sell_price)
        final_amount == sell_amount
        profit == FSub(final_amount, amount)
        profit_percentage == FDiv(profit, amount)
    IN  [symbol |-> symbol,
         market |-> market,
         initial_investment |-> amount,
         buy_exchange |-> buy_exchange,
         buy_price |-> buy_price,
         crypto_amount |-> crypto_amount,
         sell_exchange |-> sell_exchange,
         sell_price |-> sell_price,
         sell_amount |-> sell_amount,
         final_amount |-> final_amount,
         profit |-> profit,
         profit_percentage |-> profit_percentage,
         profitable |-> FGt(profit, Zero)]

TradeRecord(symbol, market, amount, buy_exchange, sell_exchange, buy_price, sell_price) ==
    LET crypto_amount == FDiv(amount, buy_price)
        sell_amount == FMul(crypto_amount, sell_price)
        final_amount == sell_amount
        profit == FSub(final_amount, amount)
        profit_percentage == FMul(FDiv(profit, amount), Hundred)
    IN  [symbol |-> symbol,
         market |-> market,
         initial_investment |-> amount,
         buy_exchange |-> buy_exchange,
         buy_price |-> buy_price,
         crypto_amount |-> crypto_amount,
         sell_exchange |-> sell_exchange,
         sell_price |-> sell_price,
         sell_amount |-> sell_amount,
         final_amount |-> final_amount,
         profit |-> profit,
         profit_percentage |-> profit_percentage,
         profitable |-> FGt(profit, Zero)]

\* The dict returned: <<>> is {}, <<r>> the record r.
calculate_trade_profit(bp, kp, symbol, market, amount, buy_exchange, sell_exchange) ==
    IF IsEmpty(bp) \/ IsEmpty(kp) THEN <<>>
    ELSE LET binance_price == Lookup(bp, symbol, market)
             kraken_price == Lookup(kp, symbol, market)
             buy_price == IF buy_exchange = "Binance" THEN binance_price ELSE kraken_price
             sell_price == IF sell_exchange = "Binance" THEN binance_price ELSE kraken_price
         IN  IF binance_price.k = "raise" \/ kraken_price.k = "raise" THEN Caught(Raised)
             ELSE IF buy_price = None \/ sell_price = None THEN Caught(Raised)    \* TypeError
             ELSE <<TradeRecord(symbol, market, amount, buy_exchange, sell_exchange,
                                buy_price, sell_price)>>

(***************************************************************************)
(* The environment: what the exchanges may answer, what the dashboard may  *)
(* ask.                                                                    *)
(***************************************************************************)
\* All three pairs listed.
FeedLow == Feed("ok", {Ticker("BTC", "USDT", 39, 1), Ticker("ETH", "USDT", 1, 2),
                       Ticker("ETH", "BTC", 1, 1)})
\* Every price of FeedLow doubled: three equal gaps against FeedLow.
FeedDouble == Feed("ok", {Ticker("BTC", "USDT", 78, 1), Ticker("ETH", "USDT", 1, 1),
                          Ticker("ETH", "BTC", 2, 1)})
\* ETH/BTC not listed.
FeedHigh == Feed("ok", {Ticker("BTC", "USDT", 50000, 1), Ticker("ETH", "USDT", 2, 1)})
\* ETH/USDT listed as the reverse pair USDT/ETH only.
FeedReverse == Feed("ok", {Ticker("BTC", "USDT", 50100, 1), Ticker("USDT", "ETH", 2, 1)})
\* A reverse pair quoted at 0: the adapter's 1 / price raises.
FeedZeroReverse == Feed("ok", {Ticker("BTC", "USDT", 39, 1), Ticker("USDT", "ETH", 0, 1)})
\* The request failed with an error other than the API's own exception.
FeedFailure == Feed("failure", {})

\* Only BTC/USDT listed: ETH has no price.
FeedBtcOnly == Feed("ok", {Ticker("BTC", "USDT", 39, 1)})
\* A feed that lists pairs of a symbol with itself.
FeedSelfPairs == Feed("ok", {Ticker("BTC", "USDT", 78, 1), Ticker("ETH", "USDT", 1, 4),
                             Ticker("BTC", "BTC", 1, 2), Ticker("USDT", "USDT", 1, 2)})

\* BTC/USDT quoted at 0.
FeedZero == Feed("ok", {Ticker("BTC", "USDT", 0, 1), Ticker("ETH", "USDT", 1, 2),
                        Ticker("ETH", "BTC", 1, 1)})
\* BTC/USDT quoted below 0.
FeedNegative == Feed("ok", {Ticker("BTC", "USDT", -39, 1), Ticker("ETH", "USDT", 1, 4),
                            Ticker("ETH", "BTC", 1, 1)})

\* The request failed with the error get_ticker_prices catches: the adapter
\* goes on with an empty ticker dict.
FeedDown == Feed("error", {})

\* BTC/USDT alone, at 100 and at 102.
Feed100 == Feed("ok", {Ticker("BTC", "USDT", 100, 1)})
Feed102 == Feed("ok", {Ticker("BTC", "USDT", 102, 1)})
ExampleFeeds == {Feed100, Feed102, FeedBtcOnly}

\* The feeds an exchange may answer with; Kraken's adapter turns every
\* failure of the request into an empty ticker dict.
KrakenFeeds == {FeedLow, FeedDouble, FeedHigh, FeedReverse, FeedZeroReverse, FeedBtcOnly,
                FeedSelfPairs, FeedZero, FeedNegative, FeedDown}
BinanceFeeds == KrakenFeeds \cup {FeedFailure}

\* The feeds the running dashboard sees move.
LiveKrakenFeeds == {FeedLow, FeedDouble, FeedZeroReverse}
LiveBinanceFeeds == {FeedLow, FeedDouble, FeedFailure}

\* The investment amounts asked for.
Amounts == {Flt(100, 1), Flt(10, 1)}

NoReq == [symbol |-> "", market |-> "", amount |-> Zero, buy_exchange |-> "", sell_exchange |-> ""]

\* The calls of calculate_trade_profit any caller may make: also for a symbol
\* that is not tracked, a market that is not configured and an exchange
\* other than the two.
Requests ==
    [symbol : SeqToSet(cryptos) \cup {"SHIB"}, market : SeqToSet(markets) \cup {"EUR"},
     amount : Amounts,
     buy_exchange : Exchanges \cup {"Bybit"}, sell_exchange : Exchanges \cup {"Bybit"}]

\* The calls the dashboard makes: the selected coin and market, the amount,
\* the buy exchange of the radio button and the other exchange to sell on.
DashboardRequests ==
    [symbol : SeqToSet(cryptos), market : SeqToSet(markets), amount : Amounts,
     buy_exchange : {"Binance"}, sell_exchange : {"Kraken"}]
    \cup [symbol : SeqToSet(cryptos), market : SeqToSet(markets), amount : Amounts,
          buy_exchange : {"Kraken"}, sell_exchange : {"Binance"}]

\* Threads that share one calculator: two that run computation cycles and
\* one that reads the last-seen record.
Pollers == {"poll1", "poll2"}
Readers == {"reader"}

\* Every thread between two calls.
Idle == [t \in Pollers \cup Readers |-> [pc |-> "idle", local |-> <<>>]]

\* What tab1 of the dashboard shows before its first render: nothing.
NotRendered == [rendered |-> FALSE, table |-> <<>>, panel |-> <<>>, info |-> FALSE]

\* No cycle recorded from before an exchange of the feeds.
NotMirrored == [run |-> FALSE, result |-> <<>>]

\* No result recorded under any fee configuration.
NoRuns == [f \in FeeConfigs |-> [run |-> FALSE, result |-> <<>>]]

\* runs after the call o(r) returned result under the fees in force: the
\* results of the same call are kept, those of another call forgotten.
Recorded(o, r, result) ==
    [(IF o = op /\ r = req THEN runs ELSE NoRuns) EXCEPT ![fees] = [run |-> TRUE, result |-> result]]

(***************************************************************************)
(* The state machine.                                                      *)
(***************************************************************************)
Init ==
    /\ cryptos = TOP_CRYPTOS
    /\ markets = MARKETS
    /\ binance_feed = FeedLow
    /\ kraken_feed = FeedLow
    /\ last_opportunity = PyNone
    /\ fees = ConfiguredFees
    /\ clock = 0
    /\ op = "idle"
    /\ req = NoReq
    /\ ret = <<>>
    /\ runs = NoRuns
    /\ display = NotRendered
    /\ mirror = NotMirrored
    /\ tops = {}
    /\ threads = Idle
    /\ kraken_cryptos = cryptos

\* The market moves on Binance.
BinanceMoves ==
    /\ \E f \in LiveBinanceFeeds \ {binance_feed} : binance_feed' = f
    /\ op' = "idle" /\ req' = NoReq /\ ret' = <<>> /\ runs' = NoRuns
    /\ UNCHANGED <<cryptos, markets, kraken_feed, last_opportunity, fees, clock, kraken_cryptos, threads, tops,
                   mirror, display>>

\* The market moves on Kraken.
KrakenMoves ==
    /\ \E f \in LiveKrakenFeeds \ {kraken_feed} : kraken_feed' = f
    /\ op' = "idle" /\ req' = NoReq /\ ret' = <<>> /\ runs' = NoRuns
    /\ UNCHANGED <<cryptos, markets, binance_feed, last_opportunity, fees, clock, kraken_cryptos, threads, tops,
                   mirror, display>>

\* One call of calculate_arbitrage_opportunities.
CalculateArbitrageOpportunities ==
    /\ clock < MaxClock
    /\ clock' = clock + 1
    /\ \E opportunities_df \in
            calculate_arbitrage_opportunities(binance_prices, kraken_prices, markets, clock + 1) :
         /\ ret' = opportunities_df
         /\ last_opportunity' = StoredOpportunity(last_opportunity, opportunities_df)
    /\ op' = "calculate_arbitrage_opportunities"
    /\ req' = NoReq
    /\ runs' = Recorded(op', req', ret')
    /\ UNCHANGED <<cryptos, markets, binance_feed, kraken_feed, fees, kraken_cryptos, threads, tops, mirror,
                   display>>

\* One call of get_low_price_gainers.
GetLowPriceGainers ==
    /\ \E result_df \in get_low_price_gainers(binance_prices, kraken_prices) : ret' = result_df
    /\ op' = "get_low_price_gainers"
    /\ req' = NoReq
    /\ runs' = Recorded(op', req', ret')
    /\ UNCHANGED <<cryptos, markets, binance_feed, kraken_feed, last_opportunity, fees, clock, kraken_cryptos,
                   threads, tops, mirror, display>>

\* One call of fetch_all_prices: the two tables.
FetchAllPrices ==
    /\ ret' = <<binance_prices, kraken_prices>>
    /\ op' = "fetch_all_prices"
    /\ req' = NoReq
    /\ runs' = Recorded(op', req', ret')
    /\ UNCHANGED <<cryptos, markets, binance_feed, kraken_feed, last_opportunity, fees, clock,
                   kraken_cryptos, threads, tops, mirror, display>>

\* CalculateTradeProfit taking the two prices from the last-seen record when
\* it is of the requested pair, instead of fetching them.
CalculateTradeProfitFromLast(requests) ==
    /\ \E r \in requests :
         /\ req' = r
         /\ ret' = IF /\ get_last_opportunity # <<>>
                      /\ get_last_opportunity[1].Symbol = r.symbol
                      /\ get_last_opportunity[1].Market = r.market
                   THEN <<TradeRecord(r.symbol, r.market, r.amount, r.buy_exchange,
                                      r.sell_exchange, get_last_opportunity[1].Buy_Price,
                                      get_last_opportunity[1].Sell_Price)>>
                   ELSE calculate_trade_profit(binance_prices, kraken_prices, r.symbol,
                                               r.market, r.amount, r.buy_exchange,
                                               r.sell_exchange)
    /\ op' = "calculate_trade_profit"
    /\ runs' = Recorded(op', req', ret')
    /\ UNCHANGED <<cryptos, markets, binance_feed, kraken_feed, last_opportunity, fees, clock,
                   kraken_cryptos, threads, tops, mirror, display>>

\* One call of calculate_trade_profit with a request of the set requests.
CalculateTradeProfit(requests) ==
    /\ \E r \in requests :
         /\ req' = r
         /\ ret' = calculate_trade_profit(binance_prices, kraken_prices, r.symbol, r.market,
                                          r.amount, r.buy_exchange, r.sell_exchange)
    /\ op' = "calculate_trade_profit"
    /\ runs' = Recorded(op', req', ret')
    /\ UNCHANGED <<cryptos, markets, binance_feed, kraken_feed, last_opportunity, fees, clock, kraken_cryptos,
                   threads, tops, mirror, display>>

\* The dashboard's trade simulator.
TradeSimulator == CalculateTradeProfit(DashboardRequests)

\* A call of calculate_trade_profit by any caller.
TradeProfitCall == CalculateTradeProfit(Requests)

\* One call of get_last_opportunity.
GetLastOpportunity ==
    /\ ret' = get_last_opportunity
    /\ op' = "get_last_opportunity"
    /\ req' = NoReq
    /\ runs' = Recorded(op', req', ret')
    /\ UNCHANGED <<cryptos, markets, binance_feed, kraken_feed, last_opportunity, fees, clock, kraken_cryptos,
                   threads, tops, mirror, display>>

\* A thread's cycle up to the sort: it fetches the tables, scores and sorts;
\* opportunities_df is local to the thread.
CycleCompute(t) ==
    /\ threads[t].pc = "idle"
    /\ clock < MaxClock
    /\ clock' = clock + 1
    /\ \E opportunities_df \in
            calculate_arbitrage_opportunities(binance_prices, kraken_prices, markets, clock + 1) :
         /\ threads' = [threads EXCEPT ![t] = [pc |-> "store", local |-> opportunities_df]]
         /\ tops' = IF Len(opportunities_df) > 0 THEN tops \cup {opportunities_df[1]} ELSE tops
    /\ UNCHANGED <<cryptos, markets, binance_feed, kraken_feed, last_opportunity, fees, op, req,
                   ret, runs, kraken_cryptos, mirror, display>>

\* The rest of the cycle: the assignment to self.last_opportunity (one store
\* of a reference to the new dict) and the return.
CycleStore(t) ==
    /\ threads[t].pc = "store"
    /\ last_opportunity' = StoredOpportunity(last_opportunity, threads[t].local)
    /\ ret' = threads[t].local
    /\ op' = "calculate_arbitrage_opportunities"
    /\ req' = NoReq
    /\ threads' = [threads EXCEPT ![t] = [pc |-> "idle", local |-> <<>>]]
    /\ UNCHANGED <<cryptos, markets, binance_feed, kraken_feed, fees, clock, runs,
                   kraken_cryptos, tops, mirror, display>>

\* get_last_opportunity reads self.last_opportunity twice: first for the
\* test of "if self.last_opportunity" ...
ReaderTest(t) ==
    /\ threads[t].pc = "idle"
    /\ threads' = [threads EXCEPT ![t] = [pc |-> "read", local |-> <<last_opportunity>>]]
    /\ UNCHANGED <<cryptos, markets, binance_feed, kraken_feed, last_opportunity, fees, clock,
                   op, req, ret, runs, kraken_cryptos, tops, mirror, display>>

\* ... then for the value it returns ({} when the test failed).
ReaderReturn(t) ==
    /\ threads[t].pc = "read"
    /\ LET tested == threads[t].local[1]
       IN  ret' = IF ~tested.none /\ tested.dict # <<>>
                  THEN (IF last_opportunity.none THEN <<PyNone>> ELSE last_opportunity.dict)
                  ELSE <<>>
    /\ op' = "get_last_opportunity"
    /\ req' = NoReq
    /\ threads' = [threads EXCEPT ![t] = [pc |-> "idle", local |-> <<>>]]
    /\ UNCHANGED <<cryptos, markets, binance_feed, kraken_feed, last_opportunity, fees, clock,
                   runs, kraken_cryptos, tops, mirror, display>>

PollerComputes == \E t \in Pollers : CycleCompute(t)
PollerStores == \E t \in Pollers : CycleStore(t)
ReaderTests == \E t \in Readers : ReaderTest(t)
ReaderReturns == \E t \in Readers : ReaderReturn(t)

\* Threads interleave their calls on one calculator while the feeds move.
NextThreads ==
    \/ BinanceMoves
    \/ KrakenMoves
    \/ PollerComputes
    \/ PollerStores
    \/ ReaderTests
    \/ ReaderReturns

SpecThreads == Init /\ [][NextThreads]_vars

(***************************************************************************)
(* The dashboard's first tab (src/app.py, "with tab1").                    *)
(***************************************************************************)
\* Tab1 with the Last Seen Opportunity panel outside the test of the frame.
Tab1PanelAlways(opportunities_df, last) ==
    [rendered |-> TRUE, table |-> opportunities_df, panel |-> last,
     info |-> Len(opportunities_df) = 0]

\* What tab1 shows for the frame of its cycle and the dict that
\* get_last_opportunity returns: the table and, "if last_opportunity", the
\* Last Seen Opportunity panel when the frame is not empty; else the
\* "No profitable arbitrage opportunities found" message alone.
Tab1(opportunities_df, last) ==
    IF Len(opportunities_df) > 0
    THEN [rendered |-> TRUE, table |-> opportunities_df, panel |-> last, info |-> FALSE]
    ELSE [rendered |-> TRUE, table |-> <<>>, panel |-> <<>>, info |-> TRUE]

\* One render of tab1 on a calculator whose last-seen record is last: the
\* cycle, then get_last_opportunity in the branch of a nonempty frame.
Render(last) ==
    /\ clock < MaxClock
    /\ clock' = clock + 1
    /\ \E opportunities_df \in
            calculate_arbitrage_opportunities(binance_prices, kraken_prices, markets, clock + 1) :
         /\ last_opportunity' = StoredOpportunity(last, opportunities_df)
         /\ display' = Tab1(opportunities_df, get_last_opportunity')
         /\ IF Len(opportunities_df) > 0
            THEN op' = "get_last_opportunity" /\ ret' = get_last_opportunity'
            ELSE op' = "calculate_arbitrage_opportunities" /\ ret' = opportunities_df
    /\ req' = NoReq
    /\ runs' = NoRuns
    /\ UNCHANGED <<cryptos, markets, binance_feed, kraken_feed, fees, kraken_cryptos, threads,
                   tops, mirror>>

\* A run of the script: it constructs its calculator, then renders.
ScriptRun == Render(PyNone)

\* A render on the calculator of the run before (a calculator kept across runs).
RenderTab1 == Render(last_opportunity)

NextRender ==
    \/ BinanceMoves
    \/ KrakenMoves
    \/ ScriptRun
    \/ RenderTab1

SpecRender == Init /\ [][NextRender]_vars

\* The running dashboard: the feeds move and the operations are called in any order.
Next ==
    \/ BinanceMoves
    \/ KrakenMoves
    \/ CalculateArbitrageOpportunities
    \/ GetLowPriceGainers
    \/ TradeSimulator
    \/ GetLastOpportunity
    \/ FetchAllPrices

Spec == Init /\ [][Next]_vars

\* One operation on any pair of feeds: the operations as functions of the
\* price tables and the request.
InitOnce ==
    /\ cryptos \in SymbolLists
    /\ markets = MARKETS
    /\ binance_feed \in BinanceFeeds
    /\ kraken_feed \in KrakenFeeds
    /\ last_opportunity = PyNone
    /\ fees = ConfiguredFees
    /\ clock = 0
    /\ op = "idle"
    /\ req = NoReq
    /\ ret = <<>>
    /\ runs = NoRuns
    /\ display = NotRendered
    /\ mirror = NotMirrored
    /\ tops = {}
    /\ threads = Idle
    /\ kraken_cryptos = cryptos

FirstCalculate == op = "idle" /\ CalculateArbitrageOpportunities
FirstGainers == op = "idle" /\ GetLowPriceGainers
FirstTradeProfit == op = "idle" /\ TradeProfitCall
ReadLast == op \in {"idle", "calculate_arbitrage_opportunities"} /\ GetLastOpportunity

NextOnce ==
    \/ FirstCalculate
    \/ FirstGainers
    \/ FirstTradeProfit
    \/ ReadLast

SpecOnce == InitOnce /\ [][NextOnce]_vars

\* The same operations under every configuration of the quote markets.
InitConfig ==
    /\ cryptos = TOP_CRYPTOS
    /\ markets \in MarketLists
    /\ binance_feed \in BinanceFeeds
    /\ kraken_feed \in KrakenFeeds
    /\ last_opportunity = PyNone
    /\ fees = ConfiguredFees
    /\ clock = 0
    /\ op = "idle"
    /\ req = NoReq
    /\ ret = <<>>
    /\ runs = NoRuns
    /\ display = NotRendered
    /\ mirror = NotMirrored
    /\ tops = {}
    /\ threads = Idle
    /\ kraken_cryptos = cryptos

SpecConfig == InitConfig /\ [][NextOnce]_vars

\* The calculator on price tables that need not list the same symbols.
InitAlign ==
    /\ cryptos \in BinanceSymbolLists
    /\ kraken_cryptos \in KrakenSymbolLists
    /\ markets = MARKETS
    /\ binance_feed \in LiveBinanceFeeds
    /\ kraken_feed \in LiveKrakenFeeds
    /\ last_opportunity = PyNone
    /\ fees = ConfiguredFees
    /\ clock = 0
    /\ op = "idle"
    /\ req = NoReq
    /\ ret = <<>>
    /\ runs = NoRuns
    /\ display = NotRendered
    /\ mirror = NotMirrored
    /\ tops = {}
    /\ threads = Idle

NextAlign ==
    \/ FirstCalculate
    \/ FirstGainers
    \/ ReadLast

SpecAlign == InitAlign /\ [][NextAlign]_vars

\* One operation of a calculator configured for BTC in the market USDT alone.
InitExample ==
    /\ cryptos = <<"BTC">>
    /\ kraken_cryptos = cryptos
    /\ markets = <<"USDT">>
    /\ binance_feed \in ExampleFeeds
    /\ kraken_feed \in ExampleFeeds
    /\ last_opportunity = PyNone
    /\ fees = ConfiguredFees
    /\ clock = 0
    /\ op = "idle"
    /\ req = NoReq
    /\ ret = <<>>
    /\ runs = NoRuns
    /\ display = NotRendered
    /\ mirror = NotMirrored
    /\ tops = {}
    /\ threads = Idle

SpecExample == InitExample /\ [][NextOnce]_vars

\* After a cycle, Binance answers what Kraken answered and Kraken what
\* Binance answered: the two price tables are exchanged.
ExchangeFeeds ==
    /\ op = "calculate_arbitrage_opportunities"
    /\ ~mirror.run
    /\ mirror' = [run |-> TRUE, result |-> ret]
    /\ binance_feed' = kraken_feed
    /\ kraken_feed' = binance_feed
    /\ op' = "idle" /\ req' = NoReq /\ ret' = <<>> /\ runs' = NoRuns
    /\ UNCHANGED <<cryptos, markets, last_opportunity, fees, clock, kraken_cryptos, threads,
                   tops, display>>

\* A cycle on two tables and a cycle on the same two tables exchanged.  The
\* feeds are those from which both adapters build the same table.
InitMirror ==
    /\ cryptos = TOP_CRYPTOS
    /\ kraken_cryptos = cryptos
    /\ markets = MARKETS
    /\ binance_feed \in KrakenFeeds
    /\ kraken_feed \in KrakenFeeds
    /\ last_opportunity = PyNone
    /\ fees = ConfiguredFees
    /\ clock = 0
    /\ op = "idle"
    /\ req = NoReq
    /\ ret = <<>>
    /\ runs = NoRuns
    /\ display = NotRendered
    /\ threads = Idle
    /\ tops = {}
    /\ mirror = NotMirrored

NextMirror ==
    \/ CalculateArbitrageOpportunities
    \/ ExchangeFeeds

SpecMirror == InitMirror /\ [][NextMirror]_vars

\* The fee settings are edited between two runs; nothing else changes.
Reconfigure ==
    /\ \E f \in FeeConfigs \ {fees} : fees' = f
    /\ UNCHANGED <<cryptos, markets, binance_feed, kraken_feed, last_opportunity, clock, op,
                   req, ret, runs, kraken_cryptos, threads, tops, mirror, display>>

\* Runs of the operations on the same feeds under one fee configuration and another.
InitFees ==
    /\ cryptos = TOP_CRYPTOS
    /\ markets = MARKETS
    /\ binance_feed \in LiveBinanceFeeds
    /\ kraken_feed \in LiveKrakenFeeds
    /\ last_opportunity = PyNone
    /\ fees \in FeeConfigs
    /\ clock = 0
    /\ op = "idle"
    /\ req = NoReq
    /\ ret = <<>>
    /\ runs = NoRuns
    /\ display = NotRendered
    /\ mirror = NotMirrored
    /\ tops = {}
    /\ threads = Idle
    /\ kraken_cryptos = cryptos

NextFees ==
    \/ Reconfigure
    \/ CalculateArbitrageOpportunities
    \/ GetLowPriceGainers
    \/ TradeSimulator

SpecFees == InitFees /\ [][NextFees]_vars

(***************************************************************************)
(* The claims.                                                             *)
(***************************************************************************)
IsCalc == op = "calculate_arbitrage_opportunities"
IsGainers == op = "get_low_price_gainers"
IsTrade == op = "calculate_trade_profit"

\* The price an exchange's table reports for (symbol, market).
Reported(exchange, symbol, market) ==
    IF exchange = "Binance" THEN Lookup(binance_prices, symbol, market)
    ELSE IF exchange = "Kraken" THEN Lookup(kraken_prices, symbol, market)
    ELSE [k |-> "raise", m |-> 0, e |-> 0]

\* C1: every Opportunity returned by calculate_arbitrage_opportunities has
\* Buy_Price <= Sell_Price, its Buy_Exchange is the exchange whose table
\* reports the lower of the two prices of that (symbol, market), its
\* Sell_Exchange the other, and Price_Diff_Pct is
\* |p_binance - p_kraken| / min(p_binance, p_kraken) * 100 of those two prices.
C1_OpportunityFields ==
    IsCalc =>
        \A i \in 1..Len(ret) :
            LET r == ret[i]
                pb == Reported("Binance", r.Symbol, r.Market)
                pk == Reported("Kraken", r.Symbol, r.Market)
                lower == IF FLt(pb, pk) THEN pb ELSE pk
            IN  /\ IsNum(pb) /\ IsNum(pk)
                /\ FLe(r.Buy_Price, r.Sell_Price)
                /\ {r.Buy_Exchange, r.Sell_Exchange} = Exchanges
                /\ r.Buy_Price = Reported(r.Buy_Exchange, r.Symbol, r.Market)
                /\ r.Sell_Price = Reported(r.Sell_Exchange, r.Symbol, r.Market)
                /\ FLt(pb, pk) => r.Buy_Exchange = "Binance"
                /\ FLt(pk, pb) => r.Buy_Exchange = "Kraken"
                /\ r.Price_Diff_Pct = FMul(FDiv(FAbs(FSub(pb, pk)), lower), Hundred)

\* A cycle that returned a record bought on Binance and a record bought on Kraken.
C1_Witness ==
    /\ IsCalc
    /\ \E i, j \in 1..Len(ret) :
          ret[i].Buy_Exchange = "Binance" /\ ret[j].Buy_Exchange = "Kraken"

\* C2: the sequence calculate_arbitrage_opportunities returns is in
\* non-increasing order of Price_Diff_Pct.
C2_SortedDescending ==
    IsCalc =>
        \A i \in 1..(Len(ret) - 1) : FLe(ret[i + 1].Price_Diff_Pct, ret[i].Price_Diff_Pct)

\* A cycle that returned records of different gaps.
C2_Witness ==
    /\ IsCalc
    /\ Len(ret) >= 2
    /\ FLt(ret[Len(ret)].Price_Diff_Pct, ret[1].Price_Diff_Pct)

\* The records of this cycle in the order the loop appended them.
Generated ==
    IF IsEmpty(binance_prices) \/ IsEmpty(kraken_prices) THEN <<>>
    ELSE Opportunities(Merge(binance_prices, kraken_prices), markets, 1, clock)

Position(r) == CHOOSE n \in 1..Len(Generated) : Generated[n] = r

\* C3: the ranking is stable: records of equal Price_Diff_Pct are returned in
\* the order they were generated (row order, then market order), so among
\* several tied top records the first one generated becomes LastOpportunity.
C3_StableRanking ==
    IsCalc =>
        /\ \A i, j \in 1..Len(ret) :
              (i < j /\ ret[i].Price_Diff_Pct = ret[j].Price_Diff_Pct)
                  => Position(ret[i]) < Position(ret[j])
        /\ \A n \in 1..Len(Generated) :
              (\A m \in 1..Len(Generated) :
                   /\ FLe(Generated[m].Price_Diff_Pct, Generated[n].Price_Diff_Pct)
                   /\ (m < n => FLt(Generated[m].Price_Diff_Pct, Generated[n].Price_Diff_Pct)))
                  => get_last_opportunity = <<Generated[n]>>

\* C4: right after a call of calculate_arbitrage_opportunities that returned
\* at least one record, get_last_opportunity returns the first record of the
\* returned sequence, field by field.
C4_LastIsTop == (IsCalc /\ ret # <<>>) => get_last_opportunity = <<ret[1]>>

\* A cycle that returned several records, the first unlike the last.
C4_Witness == IsCalc /\ Len(ret) >= 2 /\ ret[1] # ret[Len(ret)]

EmptyTable == IsEmpty(binance_prices) \/ IsEmpty(kraken_prices)

\* C5: when either exchange's price table is empty, a call of
\* calculate_arbitrage_opportunities or get_low_price_gainers returns the
\* empty sequence, a call of calculate_trade_profit returns {}, and
\* LastOpportunity is after the call what it was before.
C5_EmptyTables ==
    [][(EmptyTable /\ op' \in {"calculate_arbitrage_opportunities", "get_low_price_gainers",
                               "calculate_trade_profit"})
          => (ret' = <<>> /\ last_opportunity' = last_opportunity)]_vars

\* A cycle on an empty table that follows a cycle that stored a record.
C5_Witness == IsCalc /\ EmptyTable /\ ret = <<>> /\ ~last_opportunity.none

\* C6: get_last_opportunity returns {} until a cycle returns a nonempty
\* sequence; a cycle that returns a nonempty sequence replaces it by that
\* sequence's first record; a cycle that returns the empty sequence, and any
\* other step, leaves it as it was.
C6_LastSeenLifecycle ==
    /\ get_last_opportunity = <<>>
    /\ [][IF op' = "calculate_arbitrage_opportunities" /\ ret' # <<>>
          THEN get_last_opportunity' = <<ret'[1]>>
          ELSE get_last_opportunity' = get_last_opportunity]_vars

\* A cycle on two nonempty tables that scored nothing and kept the record of
\* an earlier cycle.
C6_Witness == IsCalc /\ ~EmptyTable /\ ret = <<>> /\ get_last_opportunity # <<>>

\* C7: no Opportunity has Symbol = Market and no LowPriceGainer has the
\* reference market as its Symbol, also when the tables have a row for a
\* quote market (BTC, USDT) and the feeds list a pair of a symbol with itself.
C7_NoSelfPair ==
    /\ IsCalc => \A i \in 1..Len(ret) : ret[i].Symbol # ret[i].Market
    /\ IsGainers => \A i \in 1..Len(ret) : ret[i].Symbol # markets[1]

\* The screener returned rows from tables that have a USDT row, on feeds that
\* both list USDT/USDT.
C7_Witness ==
    /\ IsGainers /\ ret # <<>>
    /\ \E i \in 1..Len(cryptos) : cryptos[i] = markets[1]
    /\ Listed(binance_feed.tickers, "USDT", "USDT")
    /\ Listed(kraken_feed.tickers, "USDT", "USDT")

\* C8: every row get_low_price_gainers returns has both exchanges' USDT
\* prices present, and at least one of the two strictly below 1.0.
C8_LowPriceRows ==
    IsGainers =>
        \A i \in 1..Len(ret) :
            /\ ret[i].Binance_Price = Reported("Binance", ret[i].Symbol, "USDT")
            /\ ret[i].Kraken_Price = Reported("Kraken", ret[i].Symbol, "USDT")
            /\ IsNum(ret[i].Binance_Price) /\ IsNum(ret[i].Kraken_Price)
            /\ FLt(ret[i].Binance_Price, One) \/ FLt(ret[i].Kraken_Price, One)

\* The screener returned a row with one price below 1.0 and the other not.
C8_Witness ==
    /\ IsGainers
    /\ \E i \in 1..Len(ret) :
          FLt(ret[i].Binance_Price, One) /\ FLe(One, ret[i].Kraken_Price)

\* The TradeSimulation invariants of a returned record t for the request.
TradeIdentities(t) ==
    /\ t.symbol = req.symbol /\ t.market = req.market
    /\ t.buy_exchange = req.buy_exchange /\ t.sell_exchange = req.sell_exchange
    /\ t.buy_price = Reported(req.buy_exchange, req.symbol, req.market)
    /\ t.sell_price = Reported(req.sell_exchange, req.symbol, req.market)
    /\ t.initial_investment = req.amount
    /\ t.crypto_amount = FDiv(t.initial_investment, t.buy_price)
    /\ t.sell_amount = FMul(t.crypto_amount, t.sell_price)
    /\ t.final_amount = t.sell_amount
    /\ t.profit = FSub(t.final_amount, t.initial_investment)
    /\ t.profit_percentage = FMul(FDiv(t.profit, t.initial_investment), Hundred)
    /\ t.profitable = FGt(t.profit, Zero)

\* Buy at 50000, sell at 50100, invest 100.
TradeExample(t) ==
    /\ t.buy_price = Flt(50000, 1)
    /\ t.sell_price = Flt(50100, 1)
    /\ t.initial_investment = Flt(100, 1)

\* x and y differ by no more than the rounding of a value of the size of
\* the investment of 100: 100 * 2^(1 - MantissaBits).
Close(x, y) == FLe(FAbs(FSub(x, y)), FMul(Hundred, Num(1, 1 - MantissaBits)))

NamesExchanges == req.buy_exchange \in Exchanges /\ req.sell_exchange \in Exchanges

C10_EqualPricesNoProfit ==
    (IsTrade /\ ret # <<>> /\ IsNum(ret[1].buy_price) /\ ret[1].buy_price = ret[1].sell_price)
        => (ret[1].profit = Zero /\ ~ret[1].profitable)

\* The request's (symbol, market) cannot be resolved to a price: the symbol
\* is not tracked, the market is not configured, or the two are the same.
Unresolvable ==
    \/ req.symbol \notin SeqToSet(cryptos)
    \/ req.market \notin SeqToSet(markets)
    \/ req.symbol = req.market

\* C11: a call of calculate_trade_profit for a (symbol, market) that cannot
\* be resolved to a price returns {}, never a record.
C11_UnresolvablePairFails == (IsTrade /\ Unresolvable) => ret = <<>>

\* The table of an exchange has the row and the column of the request, and
\* no value in the cell.
Absent(exchange) == isna(Reported(exchange, req.symbol, req.market))

\* C12: a call of calculate_trade_profit for a tracked symbol in a configured
\* market other than itself whose price is absent on either exchange
\* returns {}.
C12_AbsentPriceFails ==
    (IsTrade /\ ~Unresolvable /\ (Absent("Binance") \/ Absent("Kraken"))) => ret = <<>>

\* C13: a call of calculate_trade_profit whose buy or sell exchange is not
\* Binance or Kraken, or whose two exchanges are the same, returns {} (also
\* when both exchanges report a price of the requested pair).
C13_UnresolvableExchangesFail ==
    (/\ IsTrade
     /\ ~NamesExchanges \/ req.buy_exchange = req.sell_exchange
     /\ IsNum(Reported("Binance", req.symbol, req.market))
     /\ IsNum(Reported("Kraken", req.symbol, req.market)))
        => ret = <<>>

\* ret has a record for (symbol, market).
HasRecord(symbol, market) ==
    \E i \in 1..Len(ret) : ret[i].Symbol = symbol /\ ret[i].Market = market

\* Both exchanges report a positive price of (symbol, market).
BothPositive(symbol, market) ==
    /\ FGt(Reported("Binance", symbol, market), Zero)
    /\ FGt(Reported("Kraken", symbol, market), Zero)

\* C14: every record calculate_arbitrage_opportunities returns has
\* Price_Diff_Pct > 0, and for every (symbol, market) whose two prices are
\* present and positive a record is returned if and only if the two prices
\* differ.
C14_AnyGapEmitted ==
    IsCalc =>
        /\ \A i \in 1..Len(ret) : FGt(ret[i].Price_Diff_Pct, Zero)
        /\ \A symbol \in SeqToSet(cryptos) : \A market \in SeqToSet(markets) :
              BothPositive(symbol, market) =>
                  (HasRecord(symbol, market)
                      <=> Reported("Binance", symbol, market) # Reported("Kraken", symbol, market))

\* Both exchanges report the same price of (symbol, market).
Tie(symbol, market) ==
    /\ IsNum(Reported("Binance", symbol, market))
    /\ Reported("Binance", symbol, market) = Reported("Kraken", symbol, market)

\* C15 as stated: a (symbol, market) for which both exchanges report the same
\* price is returned by calculate_arbitrage_opportunities as a record with
\* Price_Diff_Pct = 0.
C15_TieEmitted ==
    IsCalc =>
        \A symbol \in SeqToSet(cryptos) : \A market \in SeqToSet(markets) :
            Tie(symbol, market) =>
                \E i \in 1..Len(ret) :
                    /\ ret[i].Symbol = symbol /\ ret[i].Market = market
                    /\ ret[i].Price_Diff_Pct = Zero

\* C15 as amended: such a (symbol, market) has a gap of 0 (when the price is
\* not 0) and calculate_arbitrage_opportunities returns no record for it.
C15_TieNotEmitted ==
    IsCalc =>
        \A symbol \in SeqToSet(cryptos) : \A market \in SeqToSet(markets) :
            Tie(symbol, market) =>
                /\ Reported("Binance", symbol, market) # Zero =>
                      PriceDiffPct(Reported("Binance", symbol, market),
                                   Reported("Kraken", symbol, market)) = Zero
                /\ ~HasRecord(symbol, market)

\* A cycle that returned records while another pair had the same positive
\* price on both exchanges.
C15_Witness ==
    /\ IsCalc /\ ret # <<>>
    /\ \E symbol \in SeqToSet(cryptos) : \E market \in SeqToSet(markets) :
          Tie(symbol, market) /\ BothPositive(symbol, market)

\* An exchange reports a price of (symbol, market) that is zero or negative.
NotPositive(symbol, market) ==
    /\ IsNum(Reported("Binance", symbol, market))
    /\ IsNum(Reported("Kraken", symbol, market))
    /\ ~BothPositive(symbol, market)

\* C16: calculate_arbitrage_opportunities returns no record with
\* Buy_Price <= 0 or with an undefined or infinite Price_Diff_Pct, no record
\* for a (symbol, market) with a zero or negative price on either exchange,
\* and in a cycle with such a pair it still returns the record of every
\* other pair whose two prices are positive and differ.
C16_PositivePricesOnly ==
    IsCalc =>
        /\ \A i \in 1..Len(ret) :
              FGt(ret[i].Buy_Price, Zero) /\ IsNum(ret[i].Price_Diff_Pct)
        /\ \A symbol \in SeqToSet(cryptos) : \A market \in SeqToSet(markets) :
              NotPositive(symbol, market) =>
                  /\ ~HasRecord(symbol, market)
                  /\ \A s \in SeqToSet(cryptos) : \A m \in SeqToSet(markets) :
                        (/\ BothPositive(s, m)
                         /\ Reported("Binance", s, m) # Reported("Kraken", s, m))
                            => HasRecord(s, m)

\* The exception left the operation: ret is the exception, not a result.
Propagated == Len(ret) = 1 /\ "k" \in DOMAIN ret[1]

\* The tables have rows and the price of (symbol, market) is absent on at
\* least one exchange: no value in the cell, or no such column.
AbsentPair(symbol, market) ==
    /\ ~EmptyTable
    /\ \/ ~IsNum(Reported("Binance", symbol, market))
       \/ ~IsNum(Reported("Kraken", symbol, market))

\* ret has a LowPriceGainer row for symbol.
HasRow(symbol) == \E i \in 1..Len(ret) : ret[i].Symbol = symbol

\* C17: for a (symbol, market) whose price is absent on at least one exchange
\* no Opportunity and no LowPriceGainer is returned and no error is raised,
\* and the cycle still returns the record of every other pair whose prices
\* are both present (positive and different for an Opportunity, one of them
\* below 1 for a LowPriceGainer).
C17_AbsentPairsSkipped ==
    (IsCalc \/ IsGainers) =>
        \A symbol \in SeqToSet(cryptos) : \A market \in SeqToSet(markets) :
            AbsentPair(symbol, market) =>
                /\ ~Propagated
                /\ IsCalc =>
                      /\ ~HasRecord(symbol, market)
                      /\ \A s \in SeqToSet(cryptos) : \A m \in SeqToSet(markets) :
                            (/\ BothPositive(s, m)
                             /\ Reported("Binance", s, m) # Reported("Kraken", s, m))
                                => HasRecord(s, m)
                /\ IsGainers =>
                      /\ market = "USDT" => ~HasRow(symbol)
                      /\ \A s \in SeqToSet(cryptos) :
                            LowPrice(Reported("Binance", s, "USDT"), Reported("Kraken", s, "USDT"))
                                => HasRow(s)

\* An adapter's get_top_crypto_prices raised inside: the request failed or a
\* reverse pair is quoted at 0.
FetcherRaises ==
    \/ binance_feed.status = "failure"
    \/ \E c \in SeqToSet(cryptos) : \E m \in SeqToSet(markets) :
          \/ BinanceCell(BinanceTickerPrices(binance_feed), c, m).k = "raise"
          \/ KrakenCell(KrakenTickerPrices(kraken_feed), c, m).k = "raise"

\* calculate_trade_profit raised inside: no such row or column, or a price
\* that is None.
TradeRaises ==
    LET binance_price == Lookup(binance_prices, req.symbol, req.market)
        kraken_price == Lookup(kraken_prices, req.symbol, req.market)
    IN  \/ binance_price.k = "raise" \/ kraken_price.k = "raise"
        \/ (IF req.buy_exchange = "Binance" THEN binance_price ELSE kraken_price) = None
        \/ (IF req.sell_exchange = "Binance" THEN binance_price ELSE kraken_price) = None

\* The operation that returned last met an error inside.
InternalError ==
    /\ IsCalc \/ IsGainers \/ IsTrade
    /\ \/ FetcherRaises
       \/ /\ ~EmptyTable
          /\ \/ IsCalc /\ ScoringRaises(Merge(binance_prices, kraken_prices), markets)
             \/ IsGainers /\ GainersRaises(Merge(binance_prices, kraken_prices))
             \/ IsTrade /\ TradeRaises

\* C18: no operation lets an error out: each returns a value (a sequence, a
\* record or {}), get_last_opportunity a record or {}, and an operation that
\* met an error inside returns its empty value.
C18_NoErrorPropagates ==
    op # "idle" =>
        /\ ~Propagated
        /\ op = "get_last_opportunity" => Len(ret) <= 1
        /\ IsTrade => Len(ret) <= 1
        /\ InternalError => ret = <<>>

\* A cycle whose scoring loop raised on two nonempty tables.
C18_Witness == IsCalc /\ ~EmptyTable /\ InternalError /\ ret = <<>>

\* A record without its reading of the clock.
Untimed(r) == IF "Timestamp" \in DOMAIN r THEN [r EXCEPT !.Timestamp = 0] ELSE r

\* Two results of one call are the same apart from timestamps: the same
\* records, with the same gap at every position.  (The order among records
\* of equal gap is what the sort makes of it, whatever the fees.)
SameResult(a, b) ==
    /\ Len(a) = Len(b)
    /\ {Untimed(a[i]) : i \in 1..Len(a)} = {Untimed(b[i]) : i \in 1..Len(b)}
    /\ \A i \in 1..Len(a) :
          "Price_Diff_Pct" \in DOMAIN a[i] => a[i].Price_Diff_Pct = b[i].Price_Diff_Pct

\* C19: on the same feeds, the same call returns the same Opportunity
\* sequence (apart from timestamps), the same LowPriceGainer sequence and
\* the same TradeSimulation record under every setting of
\* BINANCE_TAKER_FEE, KRAKEN_TAKER_FEE and SLIPPAGE.
C19_FeesIgnored ==
    \A f, g \in FeeConfigs :
        (runs[f].run /\ runs[g].run) => SameResult(runs[f].result, runs[g].result)

\* The trade simulator returned a record for the same request under both
\* fee configurations.
C19_Witness ==
    /\ IsTrade
    /\ \A f \in FeeConfigs : runs[f].run /\ runs[f].result # <<>>

\* C20: get_low_price_gainers screens on the first configured market: every
\* row carries the two exchanges' prices in markets[1], and every symbol
\* with both of these prices present and one of them below 1 has a row.
C20_ReferenceMarketIsFirst ==
    IsGainers =>
        /\ \A i \in 1..Len(ret) :
              /\ ret[i].Binance_Price = Reported("Binance", ret[i].Symbol, markets[1])
              /\ ret[i].Kraken_Price = Reported("Kraken", ret[i].Symbol, markets[1])
        /\ \A s \in SeqToSet(cryptos) :
              (/\ IsNum(Reported("Binance", s, markets[1]))
               /\ IsNum(Reported("Kraken", s, markets[1]))
               /\ LowPrice(Reported("Binance", s, markets[1]), Reported("Kraken", s, markets[1])))
                  => HasRow(s)

\* The two prices of a LowPriceGainer row as the tables report them.
GainerBinance(row) == Reported("Binance", row.Symbol, "USDT")
GainerKraken(row) == Reported("Kraken", row.Symbol, "USDT")

\* C21: every row get_low_price_gainers returns has Price_Diff_Pct =
\* |price_a - price_b| / min(price_a, price_b) * 100 of its two USDT prices,
\* a number as the scorer's is, and Avg_Price = (price_a + price_b) / 2, and
\* the rows are in non-increasing order of Price_Diff_Pct.
C21_GainerFields ==
    IsGainers =>
        /\ \A i \in 1..Len(ret) :
              /\ IsNum(ret[i].Price_Diff_Pct)
              /\ ret[i].Price_Diff_Pct = PriceDiffPct(GainerBinance(ret[i]), GainerKraken(ret[i]))
              /\ ret[i].Avg_Price
                     = FDiv(FAdd(GainerBinance(ret[i]), GainerKraken(ret[i])), Flt(2, 1))
        /\ \A i \in 1..(Len(ret) - 1) : FLe(ret[i + 1].Price_Diff_Pct, ret[i].Price_Diff_Pct)

\* The symbols a price table has a row for, and whether it has one row each.
Symbols(table) == {table.rows[i].Symbol : i \in 1..Len(table.rows)}
OneRowPerSymbol(table) ==
    \A i, j \in 1..Len(table.rows) : table.rows[i].Symbol = table.rows[j].Symbol => i = j

\* C22: the alignment is an inner join on Symbol: every Opportunity and every
\* LowPriceGainer is of a symbol both tables have a row for, and for tables
\* with one row per symbol the join has one row per common symbol, the
\* result at most one Opportunity per (symbol, market) and at most one
\* LowPriceGainer per symbol.
C22_InnerJoin ==
    ((IsCalc \/ IsGainers) /\ ~EmptyTable) =>
        /\ \A i \in 1..Len(ret) : ret[i].Symbol \in Symbols(binance_prices) \cap Symbols(kraken_prices)
        /\ (OneRowPerSymbol(binance_prices) /\ OneRowPerSymbol(kraken_prices)) =>
              /\ Len(Merge(binance_prices, kraken_prices).rows)
                     = Cardinality(Symbols(binance_prices) \cap Symbols(kraken_prices))
              /\ IsCalc =>
                    \A i, j \in 1..Len(ret) :
                        (ret[i].Symbol = ret[j].Symbol /\ ret[i].Market = ret[j].Market) => i = j
              /\ IsGainers =>
                    \A i, j \in 1..Len(ret) : ret[i].Symbol = ret[j].Symbol => i = j

\* A cycle that returned records from two tables with one row per symbol,
\* one of them with a row for a symbol the other does not have.
C22_Witness ==
    /\ IsCalc /\ ret # <<>>
    /\ OneRowPerSymbol(binance_prices) /\ OneRowPerSymbol(kraken_prices)
    /\ Symbols(binance_prices) # Symbols(kraken_prices)

\* The table has the single row BTC with the single price column USDT, at price.
ExampleTable(table, price) ==
    /\ table.cols = {"USDT"}
    /\ Len(table.rows) = 1
    /\ table.rows[1].Symbol = "BTC"
    /\ table.rows[1].price["USDT"] = price

\* C23: with Binance's table {BTC: {USDT: 100}}, Kraken's {BTC: {USDT: 102}}
\* and USDT as the only market, calculate_arbitrage_opportunities returns
\* exactly one record: BTC/USDT, buy on Binance at 100, sell on Kraken at 102,
\* Price_Diff_Pct = 2.0, and that record is LastOpportunity; and with the two
\* tables exchanged the same record with the exchanges exchanged.
C23_EndToEndExample ==
    /\ (/\ IsCalc
        /\ ExampleTable(binance_prices, Flt(100, 1))
        /\ ExampleTable(kraken_prices, Flt(102, 1))) =>
           /\ Len(ret) = 1
           /\ ret[1].Symbol = "BTC" /\ ret[1].Market = "USDT"
           /\ ret[1].Buy_Exchange = "Binance" /\ ret[1].Buy_Price = Flt(100, 1)
           /\ ret[1].Sell_Exchange = "Kraken" /\ ret[1].Sell_Price = Flt(102, 1)
           /\ ret[1].Price_Diff_Pct = Flt(2, 1)
           /\ last_opportunity = Dict(<<ret[1]>>)
    /\ (/\ IsCalc
        /\ ExampleTable(binance_prices, Flt(102, 1))
        /\ ExampleTable(kraken_prices, Flt(100, 1))) =>
           /\ Len(ret) = 1
           /\ ret[1].Symbol = "BTC" /\ ret[1].Market = "USDT"
           /\ ret[1].Buy_Exchange = "Kraken" /\ ret[1].Buy_Price = Flt(100, 1)
           /\ ret[1].Sell_Exchange = "Binance" /\ ret[1].Sell_Price = Flt(102, 1)
           /\ ret[1].Price_Diff_Pct = Flt(2, 1)
           /\ last_opportunity = Dict(<<ret[1]>>)

\* The cycle of the example has returned.
C23_Witness ==
    /\ IsCalc
    /\ ExampleTable(binance_prices, Flt(100, 1))
    /\ ExampleTable(kraken_prices, Flt(102, 1))
    /\ markets = <<"USDT">>
    /\ ret # <<>>

\* C24: whatever the interleaving of the threads' cycles and reads, a call of
\* get_last_opportunity returns {} or the complete first row of the frame of
\* one single cycle, and so is the stored value at every moment.
C24_WholeRecordsOnly ==
    /\ op = "get_last_opportunity" => (ret = <<>> \/ (Len(ret) = 1 /\ ret[1] \in tops))
    /\ last_opportunity.none \/ (Len(last_opportunity.dict) = 1 /\ last_opportunity.dict[1] \in tops)

\* A read returned a record while two cycles had computed their frames and
\* one of them had not stored its record yet.
C24_Witness ==
    /\ op = "get_last_opportunity"
    /\ Len(ret) = 1
    /\ Cardinality(tops) >= 2
    /\ \E t \in Pollers : threads[t].pc = "store"

\* C25: a call of get_low_price_gainers, calculate_trade_profit,
\* fetch_all_prices or get_last_opportunity, successful or failing, leaves
\* LastOpportunity as it was, and what get_low_price_gainers and
\* calculate_trade_profit return is determined by the tables fetched for the
\* call and the request, whatever LastOpportunity holds and whatever cycles
\* went before.
C25_OnlyCyclesWrite ==
    /\ [](IsGainers => ret \in get_low_price_gainers(binance_prices, kraken_prices))
    /\ [](IsTrade => ret = calculate_trade_profit(binance_prices, kraken_prices, req.symbol,
                                                  req.market, req.amount, req.buy_exchange,
                                                  req.sell_exchange))
    /\ [][op' \in {"get_low_price_gainers", "calculate_trade_profit", "fetch_all_prices",
                   "get_last_opportunity"}
             => last_opportunity' = last_opportunity]_vars

\* The simulator returned a record for the pair of the last-seen record,
\* after the prices of that pair had moved away from the record's.
C25_Witness ==
    /\ IsTrade /\ ret # <<>>
    /\ get_last_opportunity # <<>>
    /\ get_last_opportunity[1].Symbol = req.symbol
    /\ get_last_opportunity[1].Market = req.market
    /\ get_last_opportunity[1].Buy_Price \notin {ret[1].buy_price, ret[1].sell_price}

\* The frames calculate_arbitrage_opportunities can return on the tables as
\* they are now.
FramesNow == calculate_arbitrage_opportunities(binance_prices, kraken_prices, markets, clock)

\* C26: on the same tables, for every Opportunity of (symbol, market) a call
\* of calculate_trade_profit that buys on the record's Buy_Exchange and sells
\* on its Sell_Exchange returns profitable = true and profit_percentage equal
\* to the record's Price_Diff_Pct, and a call with the two exchanges swapped
\* returns profit < 0 and profitable = false, whatever the amount.
C26_ScorerSimulatorAgree ==
    IsTrade =>
        \A df \in FramesNow : \A i \in 1..Len(df) :
            (df[i].Symbol = req.symbol /\ df[i].Market = req.market) =>
                /\ (/\ req.buy_exchange = df[i].Buy_Exchange
                    /\ req.sell_exchange = df[i].Sell_Exchange) =>
                       /\ ret # <<>>
                       /\ ret[1].profitable
                       /\ ret[1].profit_percentage = df[i].Price_Diff_Pct
                /\ (/\ req.buy_exchange = df[i].Sell_Exchange
                    /\ req.sell_exchange = df[i].Buy_Exchange) =>
                       /\ ret # <<>>
                       /\ FLt(ret[1].profit, Zero)
                       /\ ~ret[1].profitable

\* A record as the tuple (Symbol, Market, Buy_Price, Sell_Price,
\* Price_Diff_Pct) and the exchange it buys on.
Scored5(r) == <<r.Symbol, r.Market, r.Buy_Price, r.Sell_Price, r.Price_Diff_Pct>>
Other(exchange) == IF exchange = "Binance" THEN "Kraken" ELSE "Binance"

\* C27: a cycle on the two price tables exchanged returns the same set of
\* (Symbol, Market, Buy_Price, Sell_Price, Price_Diff_Pct) tuples as the
\* cycle on the tables as they were, each with its Buy_Exchange and
\* Sell_Exchange exchanged, and in both the buy side is the cheaper side.
C27_ExchangeSymmetry ==
    (IsCalc /\ mirror.run) =>
        /\ Len(ret) = Len(mirror.result)
        /\ {<<Scored5(ret[i]), ret[i].Buy_Exchange, ret[i].Sell_Exchange>> : i \in 1..Len(ret)}
               = {<<Scored5(mirror.result[i]), Other(mirror.result[i].Buy_Exchange),
                    Other(mirror.result[i].Sell_Exchange)>> : i \in 1..Len(mirror.result)}
        /\ \A i \in 1..Len(ret) :
              /\ FLt(ret[i].Buy_Price, ret[i].Sell_Price)
              /\ ret[i].Buy_Price = Reported(ret[i].Buy_Exchange, ret[i].Symbol, ret[i].Market)
              /\ ret[i].Sell_Price = Reported(ret[i].Sell_Exchange, ret[i].Symbol, ret[i].Market)

\* The cycle on the exchanged tables returned records that buy on Binance
\* and records that buy on Kraken.
C27_Witness ==
    /\ IsCalc /\ mirror.run
    /\ \E i, j \in 1..Len(ret) : ret[i].Buy_Exchange = "Binance" /\ ret[j].Buy_Exchange = "Kraken"

\* Every price the two tables report is positive.
AllPositive ==
    \A exchange \in Exchanges : \A symbol \in SeqToSet(cryptos) : \A market \in SeqToSet(markets) :
        IsNum(Reported(exchange, symbol, market)) => FGt(Reported(exchange, symbol, market), Zero)

\* The scorer returns on these tables a record of (symbol, USDT) with a
\* price below 1 and the gap pct.
LowOpportunity(symbol, pct) ==
    \E df \in FramesNow : \E j \in 1..Len(df) :
        /\ df[j].Symbol = symbol /\ df[j].Market = "USDT"
        /\ FLt(df[j].Buy_Price, One)
        /\ df[j].Price_Diff_Pct = pct

\* C28: get_low_price_gainers returns a row for every symbol of both tables
\* whose two USDT prices are present with at least one below 1.0, a row of
\* Price_Diff_Pct = 0 when the two are equal; and when all prices are
\* positive its rows with Price_Diff_Pct > 0 are exactly the symbols with an
\* Opportunity in USDT that has a price below 1.0, with the same
\* Price_Diff_Pct.
C28_ScreenerCoversScorer ==
    IsGainers =>
        /\ \A s \in Symbols(binance_prices) \cap Symbols(kraken_prices) :
              LET b == Reported("Binance", s, "USDT")
                  k == Reported("Kraken", s, "USDT")
              IN  (IsNum(b) /\ IsNum(k) /\ (FLt(b, One) \/ FLt(k, One))) =>
                      \E i \in 1..Len(ret) :
                          /\ ret[i].Symbol = s
                          /\ (b = k /\ b # Zero) => ret[i].Price_Diff_Pct = Zero
        /\ AllPositive =>
              /\ \A i \in 1..Len(ret) :
                    FGt(ret[i].Price_Diff_Pct, Zero)
                        => LowOpportunity(ret[i].Symbol, ret[i].Price_Diff_Pct)
              /\ \A df \in FramesNow : \A j \in 1..Len(df) :
                    (df[j].Market = "USDT" /\ FLt(df[j].Buy_Price, One)) =>
                        \E i \in 1..Len(ret) :
                            /\ ret[i].Symbol = df[j].Symbol
                            /\ ret[i].Price_Diff_Pct = df[j].Price_Diff_Pct
                            /\ FGt(ret[i].Price_Diff_Pct, Zero)

\* The screener returned a row of two equal prices (a symbol without
\* Opportunity) on tables on which the scorer returns the record of another
\* symbol (one without a price below 1).
C28_Witness ==
    /\ IsGainers /\ AllPositive
    /\ \E i \in 1..Len(ret) : ret[i].Price_Diff_Pct = Zero
    /\ \E df \in FramesNow : df # <<>>

\* C29: in every render of tab1 the Last Seen Opportunity panel is shown only
\* with a nonempty table, and then it is the first row of that table; a
\* render whose cycle returned the empty frame shows the no-opportunities
\* message and no panel, also when an earlier cycle stored a record.
C29_PanelShowsCurrentBest ==
    display.rendered =>
        /\ display.panel # <<>> => (display.table # <<>> /\ display.panel = <<display.table[1]>>)
        /\ display.table # <<>> => ~display.info
        /\ display.table = <<>> => (display.panel = <<>> /\ display.info)

\* A render whose cycle returned the empty frame, on a calculator that holds
\* the record of an earlier cycle.
C29_Witness ==
    /\ display.rendered /\ display.table = <<>> /\ display.info
    /\ get_last_opportunity # <<>>

\* The ticker map an adapter works on: the feed's tickers, none when the
\* ticker request failed.
TickerMap(feed) == IF feed.status = "ok" THEN feed.tickers ELSE {}

\* The price of crypto/market by the precedence of the adapters: the direct
\* pair, else the reciprocal of the reverse pair, else (with aliases, on
\* Kraken) the XBT-named direct pair, then the reciprocal of the XBT-named
\* reverse pair, else absent.
Resolved(tickers, crypto, market, aliases) ==
    IF Listed(tickers, crypto, market) THEN PriceOf(tickers, crypto, market)
    ELSE IF Listed(tickers, market, crypto) THEN FDiv(One, PriceOf(tickers, market, crypto))
    ELSE IF aliases /\ Listed(tickers, Alt(crypto), Alt(market))
         THEN PriceOf(tickers, Alt(crypto), Alt(market))
    ELSE IF aliases /\ Listed(tickers, Alt(market), Alt(crypto))
         THEN FDiv(One, PriceOf(tickers, Alt(market), Alt(crypto)))
    ELSE NaN

\* The table has one row per symbol of crs, in that order, and every price
\* of a market other than the row's symbol is the resolved one (any missing
\* value when absent).
AdapterTable(table, feed, crs, aliases) ==
    /\ Len(table.rows) = Len(crs)
    /\ \A i \in 1..Len(table.rows) :
          /\ table.rows[i].Symbol = crs[i]
          /\ \A m \in SeqToSet(markets) \ {crs[i]} :
                LET cell == IF m \in table.cols THEN table.rows[i].price[m] ELSE NaN
                    price == Resolved(TickerMap(feed), crs[i], m, aliases)
                IN  /\ IF isna(price) THEN isna(cell) ELSE cell = price
                    /\ TickerMap(feed) = {} => isna(cell)

\* C30: the table each adapter's get_top_crypto_prices returns has exactly
\* one row per configured crypto, in configured order, with every price
\* resolved by the precedence direct pair, reciprocal of the reverse pair,
\* (Kraken) XBT-named direct pair, reciprocal of the XBT-named reverse pair,
\* absent; with an empty ticker map (the ticker fetch failed) it has its
\* rows with every price absent and is not the empty table.
C30_AdapterTables ==
    op # "idle" =>
        /\ AdapterTable(binance_prices, binance_feed, cryptos, FALSE)
        /\ AdapterTable(kraken_prices, kraken_feed, kraken_cryptos, TRUE)
====
